---- MODULE Spec2Model ----
(***************************************************************************)
(* gridthings: a two-dimensional grid of cells built from text, with       *)
(* coordinate lookup (get) and the five peek neighbour lookups, and the     *)
(* Advent of Code 2023 day 3 example built on it.                           *)
(*                                                                          *)
(* A text is a sequence of one-character strings.  An Option<T> is a        *)
(* sequence of length at most one (<<>> is None, <<v>> is Some(v)).  A Vec  *)
(* is a sequence; Rust's zero-based index i is TLA+ index i + 1.            *)
(***************************************************************************)
EXTENDS Integers, Sequences, FiniteSets, TLC

VARIABLES
    text,             \* the &str handed to from_string
    grid,             \* Grid.data: Vec<Vec<Cell<T>>>
    pc,               \* position of the program
    overflow_checks,  \* the build's overflow-checks setting (on in debug, off in release)
    call,             \* the last query: [op, y, x, offset]
    result,           \* what the last query returned: [panic, cells]
    panic_msg,        \* the message of from_string's panic, <<>> when there is none
    number,           \* the Number a Number method is called on (its cells)
    numbers,          \* main: Vec<Number>
    current_collection, \* main: the digits gathered for the next Number
    cursor,           \* main: position of the running loop
    gears,            \* main: HashMap<Cell<char>, Vec<Number>>
    p1_sum,           \* main: part 1 answer
    p2_sum,           \* main: part 2 answer
    contrib           \* what each visited gear added to p2_sum

vars == <<text, grid, pc, overflow_checks, call, result, panic_msg, number,
          numbers, current_collection, cursor, gears, p1_sum, p2_sum, contrib>>

(***************************************************************************)
(* Bounds of the model.                                                     *)
(***************************************************************************)
\* usize::MAX, scaled down; it stays above every Vec length, as in Rust
UsizeMax == 15
\* rows of the grids the queries run on
MaxRows == 3
\* columns of the grids the queries run on
MaxCols == 3
\* length of the texts the constructors are run on
MaxTextLen == 4

(***************************************************************************)
(* usize arithmetic.                                                        *)
(***************************************************************************)
\* usize::checked_sub
checked_sub(a, b) == IF b <= a THEN <<a - b>> ELSE <<>>

\* a + b on usize: None stands for the overflow panic of a build with
\* overflow checks, otherwise the sum wraps
add(a, b, oc) ==
    IF a + b > UsizeMax
    THEN IF oc THEN <<>> ELSE <<(a + b) % (UsizeMax + 1)>>
    ELSE <<a + b>>

(***************************************************************************)
(* Cell and the constructors.                                               *)
(***************************************************************************)
Cell(y, x, value) == [y |-> y, x |-> x, value |-> value]

\* index of the first "\n" of t at or after i, Len(t) when there is none
RECURSIVE LineEnd(_, _)
LineEnd(t, i) ==
    IF i >= Len(t) \/ t[i] = "\n" THEN i ELSE LineEnd(t, i + 1)

\* str::split_inclusive('\n')
RECURSIVE SplitInclusive(_)
SplitInclusive(t) ==
    IF t = <<>> THEN <<>>
    ELSE LET n == LineEnd(t, 1)
         IN  <<SubSeq(t, 1, n)>> \o SplitInclusive(SubSeq(t, n + 1, Len(t)))

\* str::lines of one piece: strip the "\n", then a "\r" before it
StripLine(line) ==
    IF line # <<>> /\ line[Len(line)] = "\n"
    THEN LET l1 == SubSeq(line, 1, Len(line) - 1)
         IN  IF l1 # <<>> /\ l1[Len(l1)] = "\r"
             THEN SubSeq(l1, 1, Len(l1) - 1)
             ELSE l1
    ELSE line

\* str::lines
Lines(t) ==
    LET pieces == SplitInclusive(t)
    IN  [i \in 1..Len(pieces) |-> StripLine(pieces[i])]

\* char::is_digit(10)
is_digit(c) == c \in {"0", "1", "2", "3", "4", "5", "6", "7", "8", "9"}

\* char::to_digit(10)
to_digit(c) ==
    CASE c = "0" -> <<0>> [] c = "1" -> <<1>> [] c = "2" -> <<2>>
      [] c = "3" -> <<3>> [] c = "4" -> <<4>> [] c = "5" -> <<5>>
      [] c = "6" -> <<6>> [] c = "7" -> <<7>> [] c = "8" -> <<8>>
      [] c = "9" -> <<9>> [] OTHER -> <<>>

\* a from_string that stores the column as y and the row as x
FromStringCharSwapped(t) ==
    LET lines == Lines(t)
    IN  [i \in 1..Len(lines) |->
            [j \in 1..Len(lines[i]) |-> Cell(j - 1, i - 1, lines[i][j])]]

\* Grid<char>::from_string: the data of the grid built
FromStringChar(t) ==
    LET lines == Lines(t)
    IN  [i \in 1..Len(lines) |->
            [j \in 1..Len(lines[i]) |-> Cell(i - 1, j - 1, lines[i][j])]]

\* the characters of t in the order from_string visits them
RECURSIVE Flatten(_)
Flatten(lines) ==
    IF lines = <<>> THEN <<>> ELSE Head(lines) \o Flatten(Tail(lines))

\* a from_string that stores 0 for a character that is no digit (unwrap_or)
FromStringDigitSkipping(t) ==
    LET lines == Lines(t)
    IN  [panic |-> <<>>,
         data  |-> [i \in 1..Len(lines) |->
                      [j \in 1..Len(lines[i]) |->
                          Cell(i - 1, j - 1,
                               IF to_digit(lines[i][j]) = <<>> THEN 0
                               ELSE to_digit(lines[i][j])[1])]]]

\* Grid<i32>::from_string: [panic |-> the expect message, data |-> the grid];
\* the first character that is no digit panics and no grid is returned
FromStringDigit(t) ==
    LET lines == Lines(t)
        bad   == SelectSeq(Flatten(lines), LAMBDA c : to_digit(c) = <<>>)
    IN  IF bad # <<>>
        THEN [panic |-> <<"Failed to cast to i32: ", bad[1]>>, data |-> <<>>]
        ELSE [panic |-> <<>>,
              data  |-> [i \in 1..Len(lines) |->
                           [j \in 1..Len(lines[i]) |->
                               Cell(i - 1, j - 1, to_digit(lines[i][j])[1])]]]

(***************************************************************************)
(* The queries.  A query returns [panic, cells]: panic is TRUE when an      *)
(* addition overflowed in a build with overflow checks.                     *)
(***************************************************************************)
Ok(cells) == [panic |-> FALSE, cells |-> cells]
Panic == [panic |-> TRUE, cells |-> <<>>]

\* a get that also bounds the column by the first row's length
GetRowZero(data, y, x) ==
    IF y < Len(data)
    THEN IF x < Len(data[1]) /\ x < Len(data[y + 1])
         THEN <<data[y + 1][x + 1]>> ELSE <<>>
    ELSE <<>>

\* Grid::get
Get(data, y, x) ==
    IF y < Len(data)
    THEN IF x < Len(data[y + 1]) THEN <<data[y + 1][x + 1]>> ELSE <<>>
    ELSE <<>>

\* Vec::extend over two query results; a panic in either ends the caller
Extend(r1, r2) ==
    IF r1.panic THEN Panic
    ELSE IF r2.panic THEN Panic
    ELSE Ok(r1.cells \o r2.cells)

\* Grid::peek_horizontal
PeekHorizontal(data, y, x, offset, oc) ==
    LET look_left == checked_sub(x, offset)
        left  == IF look_left # <<>> THEN Get(data, y, look_left[1]) ELSE <<>>
        right == add(x, offset, oc)
    IN  IF right = <<>> THEN Panic
        ELSE Ok(left \o Get(data, y, right[1]))

\* Grid::peek_vertical
PeekVertical(data, y, x, offset, oc) ==
    LET look_up == checked_sub(y, offset)
        up   == IF look_up # <<>> THEN Get(data, look_up[1], x) ELSE <<>>
        down == add(y, offset, oc)
    IN  IF down = <<>> THEN Panic
        ELSE Ok(up \o Get(data, down[1], x))

\* a peek_linear that extends with the vertical cells first
PeekLinearVerticalFirst(data, y, x, offset, oc) ==
    Extend(PeekVertical(data, y, x, offset, oc),
           PeekHorizontal(data, y, x, offset, oc))

\* Grid::peek_linear
PeekLinear(data, y, x, offset, oc) ==
    Extend(PeekHorizontal(data, y, x, offset, oc),
           PeekVertical(data, y, x, offset, oc))

\* a peek_diagonal without its last block (down and right)
PeekDiagonalNoDownRight(data, y, x, offset, oc) ==
    LET look_up   == checked_sub(y, offset)
        look_left == checked_sub(x, offset)
        right     == add(x, offset, oc)
        down      == add(y, offset, oc)
        ul == IF look_up # <<>> /\ look_left # <<>>
              THEN Get(data, look_up[1], look_left[1]) ELSE <<>>
    IN  IF look_up # <<>> /\ right = <<>> THEN Panic
        ELSE IF look_left # <<>> /\ down = <<>> THEN Panic
        ELSE Ok(ul
                \o (IF look_up # <<>> THEN Get(data, look_up[1], right[1]) ELSE <<>>)
                \o (IF look_left # <<>> THEN Get(data, down[1], look_left[1]) ELSE <<>>))

\* Grid::peek_diagonal
PeekDiagonal(data, y, x, offset, oc) ==
    LET look_up   == checked_sub(y, offset)
        look_left == checked_sub(x, offset)
        right     == add(x, offset, oc)
        down      == add(y, offset, oc)
        ul == IF look_up # <<>> /\ look_left # <<>>
              THEN Get(data, look_up[1], look_left[1]) ELSE <<>>
    IN  \* Check up and right
        IF look_up # <<>> /\ right = <<>> THEN Panic
        \* Check down and left
        ELSE IF look_left # <<>> /\ down = <<>> THEN Panic
        \* Check down and right
        ELSE IF down = <<>> \/ right = <<>> THEN Panic
        ELSE Ok(ul
                \o (IF look_up # <<>> THEN Get(data, look_up[1], right[1]) ELSE <<>>)
                \o (IF look_left # <<>> THEN Get(data, down[1], look_left[1]) ELSE <<>>)
                \o Get(data, down[1], right[1]))

\* Grid::peek_all
PeekAll(data, y, x, offset, oc) ==
    Extend(PeekLinear(data, y, x, offset, oc),
           PeekDiagonal(data, y, x, offset, oc))

(***************************************************************************)
(* The example: Number, a run of digit cells of a Grid<char>.               *)
(***************************************************************************)
\* Vec::contains
Contains(v, e) == \E i \in 1..Len(v) : v[i] = e

\* Number::value: the digits of the cells read as a decimal number
RECURSIVE Value(_)
Value(cells) ==
    IF cells = <<>> THEN 0
    ELSE 10 * Value(SubSeq(cells, 1, Len(cells) - 1))
         + to_digit(cells[Len(cells)].value)[1]

\* the inner loop without its !matches.contains(&result) test
RECURSIVE PushNewNoDedup(_, _, _)
PushNewNoDedup(matches, results, cells) ==
    IF results = <<>> THEN matches
    ELSE PushNewNoDedup(IF ~Contains(cells, Head(results))
                        THEN Append(matches, Head(results)) ELSE matches,
                        Tail(results), cells)

\* the inner loop of Number::peek_all: push the results that are neither
\* cells of the Number nor matches already
RECURSIVE PushNewLoop(_, _, _)
PushNewLoop(matches, results, cells) ==
    IF results = <<>> THEN matches
    ELSE PushNewLoop(IF ~Contains(cells, Head(results))
                        /\ ~Contains(matches, Head(results))
                     THEN Append(matches, Head(results)) ELSE matches,
                     Tail(results), cells)

PushNew(matches, results, cells) == PushNewLoop(matches, results, cells)

\* the outer loop of Number::peek_all, from the i-th cell on
RECURSIVE NumberPeekAllFrom(_, _, _, _, _)
NumberPeekAllFrom(cells, i, matches, data, oc) ==
    IF i > Len(cells) THEN Ok(matches)
    ELSE LET results == PeekAll(data, cells[i].y, cells[i].x, 1, oc)
         IN  IF results.panic THEN Panic
             ELSE NumberPeekAllFrom(cells, i + 1,
                                    PushNew(matches, results.cells, cells),
                                    data, oc)

\* Number::peek_all
NumberPeekAll(cells, data, oc) == NumberPeekAllFrom(cells, 1, <<>>, data, oc)

\* Number::symbol_adjacent: [panic, value]
SymbolAdjacent(cells, data, oc) ==
    LET m == NumberPeekAll(cells, data, oc)
    IN  [panic |-> m.panic,
         value |-> \E i \in 1..Len(m.cells) :
                      ~is_digit(m.cells[i].value) /\ m.cells[i].value # "."]

\* a gears that keeps every symbol, as symbol_adjacent tests them
GearsAnySymbol(cells, data, oc) ==
    LET m == NumberPeekAll(cells, data, oc)
    IN  IF m.panic THEN Panic
        ELSE Ok(SelectSeq(m.cells, LAMBDA c : ~is_digit(c.value) /\ c.value # "."))

\* Number::gears
Gears(cells, data, oc) ==
    LET m == NumberPeekAll(cells, data, oc)
    IN  IF m.panic THEN Panic
        ELSE Ok(SelectSeq(m.cells, LAMBDA c : c.value = "*"))

\* gears.entry(gear).or_insert(Vec::new()).push(number.clone()), for each of gs
RECURSIVE InsertGears(_, _, _)
InsertGears(map, gs, n) ==
    IF gs = <<>> THEN map
    ELSE LET g   == Head(gs)
             old == IF g \in DOMAIN map THEN map[g] ELSE <<>>
         IN  InsertGears([k \in DOMAIN map \cup {g} |->
                             IF k = g THEN Append(old, n) ELSE map[k]],
                         Tail(gs), n)

(***************************************************************************)
(* The inputs.                                                              *)
(***************************************************************************)
\* the characters the constructors are run on
Alphabet == {"1", "a", "\n", "\r"}

\* every text of at most MaxTextLen characters
AllTexts == UNION {[1..n -> Alphabet] : n \in 0..MaxTextLen}

\* the texts of the specification's examples
Text123 == <<"1", "2", "3", "\n", "4", "5", "6">>
Text12a == <<"1", "2", "a">>
TextSample2 ==
    <<"4", "6", "7", ".", ".", "1", "1", "4", ".", ".", "\n",
      ".", ".", ".", "*", ".", ".", ".", ".", ".", ".">>

BuildTexts == AllTexts \cup {Text123, Text12a, TextSample2}

\* the shapes of the ragged grids the queries run on: the length of each row
RowLens == {0, 1, MaxCols - 1, MaxCols}
Shapes == UNION {[1..n -> RowLens] : n \in 0..MaxRows}

\* the character at row y, column x of a grid text
Fill(y, x, f) ==
    IF f = "digits" THEN <<"1", "2", "3">>[(x % 3) + 1]
    ELSE <<"7", ".", "*">>[((y + x) % 3) + 1]

\* the text of a grid of the given shape, every line ended by "\n"
GridText(lens, f) ==
    Flatten([i \in 1..Len(lens) |->
                [j \in 1..lens[i] |-> Fill(i - 1, j - 1, f)] \o <<"\n">>])

GridTexts == {GridText(lens, "mixed") : lens \in Shapes}

NumberTexts == {GridText(lens, f) : lens \in Shapes, f \in {"digits", "mixed"}}

\* the rows, columns and offsets the queries are asked with: in and just past
\* the grid, and at the top of usize
YArgs == (0..MaxRows) \cup {UsizeMax}
XArgs == (0..MaxCols) \cup {UsizeMax}
OffsetArgs == {0, 1, 2, UsizeMax - 1, UsizeMax}

NoCall == [op |-> "none", y |-> 0, x |-> 0, offset |-> 0]

(***************************************************************************)
(* The program's steps.                                                     *)
(***************************************************************************)
main_vars == <<number, numbers, current_collection, cursor, gears, p1_sum,
               p2_sum, contrib>>

InitCommon ==
    /\ grid = <<>>
    /\ pc = "start"
    /\ overflow_checks \in BOOLEAN
    /\ call = NoCall
    /\ result = Ok(<<>>)
    /\ panic_msg = <<>>
    /\ number = <<>>
    /\ numbers = <<>>
    /\ current_collection = <<>>
    /\ cursor = 0
    /\ gears = <<>>
    /\ p1_sum = 0
    /\ p2_sum = 0
    /\ contrib = <<>>

\* let grid: Grid<char> = Grid::from_string(text)
NewCharGrid ==
    /\ pc = "start"
    /\ grid' = FromStringChar(text)
    /\ pc' = "ready"
    /\ call' = [NoCall EXCEPT !.op = "from_string_char"]
    /\ UNCHANGED <<text, overflow_checks, result, panic_msg, main_vars>>

\* let grid: Grid<i32> = Grid::from_string(text)
NewDigitGrid ==
    /\ pc = "start"
    /\ LET r == FromStringDigit(text)
       IN  /\ grid' = r.data
           /\ panic_msg' = r.panic
           /\ pc' = IF r.panic # <<>> THEN "panicked" ELSE "ready"
    /\ call' = [NoCall EXCEPT !.op = "from_string_digit"]
    /\ UNCHANGED <<text, overflow_checks, result, main_vars>>

\* a query returns r; the grid is immutable and the queries are pure, so a
\* behaviour makes one query
Return(op, y, x, offset, r) ==
    /\ call' = [op |-> op, y |-> y, x |-> x, offset |-> offset]
    /\ result' = r
    /\ pc' = IF r.panic THEN "panicked" ELSE "returned"
    /\ UNCHANGED <<text, grid, overflow_checks, panic_msg, main_vars>>

CallGet ==
    /\ pc = "ready"
    /\ \E y \in YArgs, x \in XArgs :
          Return("get", y, x, 0, Ok(Get(grid, y, x)))

CallPeekHorizontal ==
    /\ pc = "ready"
    /\ \E y \in YArgs, x \in XArgs, offset \in OffsetArgs :
          Return("peek_horizontal", y, x, offset,
                 PeekHorizontal(grid, y, x, offset, overflow_checks))

CallPeekVertical ==
    /\ pc = "ready"
    /\ \E y \in YArgs, x \in XArgs, offset \in OffsetArgs :
          Return("peek_vertical", y, x, offset,
                 PeekVertical(grid, y, x, offset, overflow_checks))

CallPeekLinear ==
    /\ pc = "ready"
    /\ \E y \in YArgs, x \in XArgs, offset \in OffsetArgs :
          Return("peek_linear", y, x, offset,
                 PeekLinear(grid, y, x, offset, overflow_checks))

CallPeekDiagonal ==
    /\ pc = "ready"
    /\ \E y \in YArgs, x \in XArgs, offset \in OffsetArgs :
          Return("peek_diagonal", y, x, offset,
                 PeekDiagonal(grid, y, x, offset, overflow_checks))

CallPeekAll ==
    /\ pc = "ready"
    /\ \E y \in YArgs, x \in XArgs, offset \in OffsetArgs :
          Return("peek_all", y, x, offset,
                 PeekAll(grid, y, x, offset, overflow_checks))

(***************************************************************************)
(* Spec: a character grid is built from a text and queried.                 *)
(***************************************************************************)
Init == text \in GridTexts /\ InitCommon

Next ==
    \/ NewCharGrid
    \/ CallGet
    \/ CallPeekHorizontal
    \/ CallPeekVertical
    \/ CallPeekLinear
    \/ CallPeekDiagonal
    \/ CallPeekAll

Spec == Init /\ [][Next]_vars

(***************************************************************************)
(* SpecBuild: the two constructors on every short text.                     *)
(***************************************************************************)
InitBuild == text \in BuildTexts /\ InitCommon

NextBuild == NewCharGrid \/ NewDigitGrid

SpecBuild == InitBuild /\ [][NextBuild]_vars

(***************************************************************************)
(* SpecNumber: Number::peek_all on a run of digit cells of a grid.          *)
(***************************************************************************)
\* Number::new on the len digit cells of row y that start at column x
NumberNew ==
    /\ pc = "ready"
    /\ \E y \in 0..(Len(grid) - 1) :
          \E x \in 0..(Len(grid[y + 1]) - 1), len \in 1..MaxCols :
              /\ x + len <= Len(grid[y + 1])
              /\ \A k \in (x + 1)..(x + len) : is_digit(grid[y + 1][k].value)
              /\ number' = SubSeq(grid[y + 1], x + 1, x + len)
    /\ pc' = "number"
    /\ call' = [NoCall EXCEPT !.op = "number_new"]
    /\ UNCHANGED <<text, grid, overflow_checks, result, panic_msg, numbers,
                   current_collection, cursor, gears, p1_sum, p2_sum, contrib>>

CallNumberPeekAll ==
    /\ pc = "number"
    /\ LET r == NumberPeekAll(number, grid, overflow_checks)
       IN  /\ result' = r
           /\ pc' = IF r.panic THEN "panicked" ELSE "returned"
    /\ call' = [NoCall EXCEPT !.op = "number_peek_all"]
    /\ UNCHANGED <<text, grid, overflow_checks, panic_msg, main_vars>>

InitNumber == text \in NumberTexts /\ InitCommon

NextNumber == NewCharGrid \/ NumberNew \/ CallNumberPeekAll

SpecNumber == InitNumber /\ [][NextNumber]_vars

(***************************************************************************)
(* SpecAoc: main of the example, on its sample text.                        *)
(***************************************************************************)
\* the raw string literal of main: it starts and ends with a line end
SampleText ==
    <<"\n">>
    \o <<"4", "6", "7", ".", ".", "1", "1", "4", ".", ".", "\n">>
    \o <<".", ".", ".", "*", ".", ".", ".", ".", ".", ".", "\n">>
    \o <<".", ".", "3", "5", ".", ".", "6", "3", "3", ".", "\n">>
    \o <<".", ".", ".", ".", ".", ".", "#", ".", ".", ".", "\n">>
    \o <<"6", "1", "7", "*", ".", ".", ".", ".", ".", ".", "\n">>
    \o <<".", ".", ".", ".", ".", "+", ".", "5", "8", ".", "\n">>
    \o <<".", ".", "5", "9", "2", ".", ".", ".", ".", ".", "\n">>
    \o <<".", ".", ".", ".", ".", ".", "7", "5", "5", ".", "\n">>
    \o <<".", ".", ".", "$", ".", "*", ".", ".", ".", ".", "\n">>
    \o <<".", "6", "6", "4", ".", "5", "9", "8", ".", ".", "\n">>

\* let grid: Grid<char> = Grid::from_string(text)
MainFromString ==
    /\ pc = "start"
    /\ grid' = FromStringChar(text)
    /\ pc' = "extract"
    /\ cursor' = [row |-> 0, col |-> 0]
    /\ UNCHANGED <<text, overflow_checks, call, result, panic_msg, number,
                   numbers, current_collection, gears, p1_sum, p2_sum, contrib>>

\* one turn of the inner loop that gathers the Numbers
ExtractCell ==
    /\ pc = "extract"
    /\ cursor.row < Len(grid)
    /\ cursor.col < Len(grid[cursor.row + 1])
    /\ LET cell == grid[cursor.row + 1][cursor.col + 1]
       IN  IF is_digit(cell.value)
           THEN /\ current_collection' = Append(current_collection, cell)
                /\ numbers' = numbers
           ELSE IF current_collection # <<>>
           THEN /\ numbers' = Append(numbers, current_collection)
                /\ current_collection' = <<>>
           ELSE UNCHANGED <<numbers, current_collection>>
    /\ cursor' = [cursor EXCEPT !.col = @ + 1]
    /\ UNCHANGED <<text, grid, pc, overflow_checks, call, result, panic_msg,
                   number, gears, p1_sum, p2_sum, contrib>>

\* the end of a row: the digits gathered so far make a Number
ExtractRowEnd ==
    /\ pc = "extract"
    /\ cursor.row < Len(grid)
    /\ cursor.col = Len(grid[cursor.row + 1])
    /\ IF current_collection # <<>>
       THEN /\ numbers' = Append(numbers, current_collection)
            /\ current_collection' = <<>>
       ELSE UNCHANGED <<numbers, current_collection>>
    /\ cursor' = [row |-> cursor.row + 1, col |-> 0]
    /\ UNCHANGED <<text, grid, pc, overflow_checks, call, result, panic_msg,
                   number, gears, p1_sum, p2_sum, contrib>>

\* the rows are exhausted
ExtractDone ==
    /\ pc = "extract"
    /\ cursor.row = Len(grid)
    /\ pc' = "part1"
    /\ cursor' = 0
    /\ UNCHANGED <<text, grid, overflow_checks, call, result, panic_msg, number,
                   numbers, current_collection, gears, p1_sum, p2_sum, contrib>>

\* one turn of the part 1 loop
Part1Step ==
    /\ pc = "part1"
    /\ cursor < Len(numbers)
    /\ LET n == numbers[cursor + 1]
           is_adjacent == SymbolAdjacent(n, grid, overflow_checks)
       IN  /\ number' = n
           /\ IF is_adjacent.panic
              THEN pc' = "panicked" /\ p1_sum' = p1_sum
              ELSE /\ pc' = pc
                   /\ p1_sum' = IF is_adjacent.value
                                THEN p1_sum + Value(n) ELSE p1_sum
    /\ cursor' = cursor + 1
    /\ UNCHANGED <<text, grid, overflow_checks, call, result, panic_msg,
                   numbers, current_collection, gears, p2_sum, contrib>>

Part1Done ==
    /\ pc = "part1"
    /\ cursor = Len(numbers)
    /\ pc' = "part2_map"
    /\ cursor' = 0
    /\ UNCHANGED <<text, grid, overflow_checks, call, result, panic_msg, number,
                   numbers, current_collection, gears, p1_sum, p2_sum, contrib>>

\* one turn of the loop that fills the gear map
Part2MapStep ==
    /\ pc = "part2_map"
    /\ cursor < Len(numbers)
    /\ LET n  == numbers[cursor + 1]
           gs == Gears(n, grid, overflow_checks)
       IN  /\ number' = n
           /\ IF gs.panic
              THEN pc' = "panicked" /\ gears' = gears
              ELSE pc' = pc /\ gears' = InsertGears(gears, gs.cells, n)
    /\ cursor' = cursor + 1
    /\ UNCHANGED <<text, grid, overflow_checks, call, result, panic_msg,
                   numbers, current_collection, p1_sum, p2_sum, contrib>>

Part2MapDone ==
    /\ pc = "part2_map"
    /\ cursor = Len(numbers)
    /\ pc' = "part2_sum"
    /\ cursor' = 0
    /\ UNCHANGED <<text, grid, overflow_checks, call, result, panic_msg, number,
                   numbers, current_collection, gears, p1_sum, p2_sum, contrib>>

\* what the entry (cell, touching) adds to p2_sum
GearProduct(touching) ==
    IF Len(touching) = 2 THEN Value(touching[1]) * Value(touching[2]) ELSE 0

\* one turn of the loop over the gear map; a HashMap is visited in any order
Part2SumStep ==
    /\ pc = "part2_sum"
    /\ \E cell \in DOMAIN gears \ DOMAIN contrib :
          /\ p2_sum' = p2_sum + GearProduct(gears[cell])
          /\ contrib' = [k \in DOMAIN contrib \cup {cell} |->
                            IF k = cell THEN GearProduct(gears[cell])
                            ELSE contrib[k]]
    /\ UNCHANGED <<text, grid, pc, overflow_checks, call, result, panic_msg,
                   number, numbers, current_collection, cursor, gears, p1_sum>>

Part2SumDone ==
    /\ pc = "part2_sum"
    /\ DOMAIN contrib = DOMAIN gears
    /\ pc' = "done"
    /\ UNCHANGED <<text, grid, overflow_checks, call, result, panic_msg, number,
                   numbers, current_collection, cursor, gears, p1_sum, p2_sum,
                   contrib>>

InitAoc == text = SampleText /\ InitCommon

NextAoc ==
    \/ MainFromString
    \/ ExtractCell
    \/ ExtractRowEnd
    \/ ExtractDone
    \/ Part1Step
    \/ Part1Done
    \/ Part2MapStep
    \/ Part2MapDone
    \/ Part2SumStep
    \/ Part2SumDone

SpecAoc == InitAoc /\ [][NextAoc]_vars

(***************************************************************************)
(* Properties of the queries (Spec).                                        *)
(***************************************************************************)
\* (r, c), in true integer arithmetic, is a position of the grid
InGrid(r, c) == r >= 0 /\ r < Len(grid) /\ c >= 0 /\ c < Len(grid[r + 1])

\* the cells stored at those of the positions ps that are in the grid, in order
RECURSIVE CellsAt(_)
CellsAt(ps) ==
    IF ps = <<>> THEN <<>>
    ELSE (IF InGrid(ps[1][1], ps[1][2])
          THEN <<grid[ps[1][1] + 1][ps[1][2] + 1]>> ELSE <<>>)
         \o CellsAt(Tail(ps))

\* the neighbour positions of the last call, in true integer arithmetic
HorizontalAt == <<<<call.y, call.x - call.offset>>, <<call.y, call.x + call.offset>>>>
VerticalAt == <<<<call.y - call.offset, call.x>>, <<call.y + call.offset, call.x>>>>
DiagonalAt ==
    << <<call.y - call.offset, call.x - call.offset>>,
       <<call.y - call.offset, call.x + call.offset>>,
       <<call.y + call.offset, call.x - call.offset>>,
       <<call.y + call.offset, call.x + call.offset>> >>

NeighboursAt ==
    CASE call.op = "peek_horizontal" -> HorizontalAt
      [] call.op = "peek_vertical" -> VerticalAt
      [] call.op = "peek_linear" -> HorizontalAt \o VerticalAt
      [] call.op = "peek_diagonal" -> DiagonalAt
      [] call.op = "peek_all" -> HorizontalAt \o VerticalAt \o DiagonalAt
      [] OTHER -> <<>>

IsPeek == call.op \in {"peek_horizontal", "peek_vertical", "peek_linear",
                       "peek_diagonal", "peek_all"}

\* no addition of the last call overflows usize
NoOverflow == call.x + call.offset <= UsizeMax /\ call.y + call.offset <= UsizeMax

\* C1: every cell a peek returns is the cell stored at one of the call's
\* neighbour positions computed in true integer arithmetic (row +/- offset,
\* col +/- offset), so none comes from a wrapped coordinate.
C1_NoWrappedNeighbour ==
    IsPeek =>
        \A k \in 1..Len(result.cells) :
            \E n \in 1..Len(NeighboursAt) :
                /\ InGrid(NeighboursAt[n][1], NeighboursAt[n][2])
                /\ result.cells[k] = grid[NeighboursAt[n][1] + 1][NeighboursAt[n][2] + 1]
                /\ result.cells[k].y = NeighboursAt[n][1]
                /\ result.cells[k].x = NeighboursAt[n][2]

\* The subtraction side of C1 alone: a peek whose additions do not overflow
\* returns only cells at true neighbour positions.
UnderflowGuarded == NoOverflow => C1_NoWrappedNeighbour

\* C2: no query panics, whatever the row, column and offset.
C2_NoQueryPanics == pc # "panicked"

\* C3: get(row, col) returns the cell stored at that slot if row is below the
\* number of rows and col below the length of that row, and absent otherwise;
\* the grid is as it was built.
C3_GetIffInRaggedBounds ==
    call.op = "get" =>
        /\ result.panic = FALSE
        /\ result.cells = CellsAt(<< <<call.y, call.x>> >>)
        /\ (result.cells # <<>> <=>
               \E r \in 1..Len(grid) : r - 1 = call.y /\ call.x + 1 \in DOMAIN grid[r])
        /\ grid = FromStringChar(text)

\* get answered absent for a column that another row has, but this row has not
C3_Witness ==
    /\ call.op = "get"
    /\ result.cells = <<>>
    /\ call.y < Len(grid)
    /\ call.x >= Len(grid[call.y + 1])
    /\ \E r \in 1..Len(grid) : call.x < Len(grid[r])

\* C6: peek_linear is peek_horizontal followed by peek_vertical and peek_all is
\* peek_linear followed by peek_diagonal (a panic of a part is a panic of the
\* whole); the result has at most 4, resp. 8, cells; when no addition
\* overflows it is the cells at left, right, up, down (then up-left, up-right,
\* down-left, down-right) that exist, in that order, duplicates kept.
C6_ComposedInOrder ==
    LET H == PeekHorizontal(grid, call.y, call.x, call.offset, overflow_checks)
        V == PeekVertical(grid, call.y, call.x, call.offset, overflow_checks)
        L == PeekLinear(grid, call.y, call.x, call.offset, overflow_checks)
        D == PeekDiagonal(grid, call.y, call.x, call.offset, overflow_checks)
    IN  /\ call.op = "peek_linear" =>
              /\ result.panic = (H.panic \/ V.panic)
              /\ ~result.panic => result.cells = H.cells \o V.cells
              /\ Len(result.cells) <= 4
              /\ NoOverflow => ~result.panic /\ result.cells = CellsAt(NeighboursAt)
        /\ call.op = "peek_all" =>
              /\ result.panic = (L.panic \/ D.panic)
              /\ ~result.panic => result.cells = L.cells \o D.cells
              /\ ~result.panic => result.cells = H.cells \o V.cells \o D.cells
              /\ Len(result.cells) <= 8
              /\ NoOverflow => ~result.panic /\ result.cells = CellsAt(NeighboursAt)

\* peek_all with offset 0 at a position of the grid returned the start cell
\* eight times
C6_Witness ==
    /\ call.op = "peek_all"
    /\ call.offset = 0
    /\ InGrid(call.y, call.x)
    /\ result.cells = [k \in 1..8 |-> grid[call.y + 1][call.x + 1]]

\* C7: peek_diagonal returns exactly the cells at those of up-left, up-right,
\* down-left, down-right (in true integer arithmetic) that are in the grid,
\* in that order.
C7_DiagonalExact ==
    call.op = "peek_diagonal" =>
        ~result.panic /\ result.cells = CellsAt(DiagonalAt)

\* the sizes C8 states
InteriorSizes ==
    /\ call.op = "peek_horizontal" => Len(result.cells) = 2
    /\ call.op = "peek_vertical" => Len(result.cells) = 2
    /\ call.op = "peek_linear" => Len(result.cells) = 4
    /\ call.op = "peek_diagonal" => Len(result.cells) = 4
    /\ call.op = "peek_all" => Len(result.cells) = 8

\* the point of the last call is at least offset away from the first and the
\* last row and from the start and the end of its own row
InteriorOfOwnRow ==
    /\ call.y - call.offset >= 0
    /\ call.y + call.offset < Len(grid)
    /\ call.x - call.offset >= 0
    /\ call.x + call.offset < Len(grid[call.y + 1])

\* C8 as stated: at a point interior to the rows and to its own row the peeks
\* return 2, 2, 4, 4 and 8 cells.
C8_InteriorOfOwnRowSizes ==
    (IsPeek /\ InteriorOfOwnRow) => (~result.panic /\ InteriorSizes)

\* C8 amended: at a point interior to the rows, to its own row and to the rows
\* offset above and below it, the peeks return 2, 2, 4, 4 and 8 cells.
C8_InteriorSizes ==
    (/\ IsPeek
     /\ InteriorOfOwnRow
     /\ call.x + call.offset < Len(grid[call.y - call.offset + 1])
     /\ call.x + call.offset < Len(grid[call.y + call.offset + 1]))
    => (~result.panic /\ InteriorSizes)

\* peek_all at an interior point, offset 1, returned 8 cells
C8_Witness ==
    /\ call.op = "peek_all"
    /\ call.offset = 1
    /\ InteriorOfOwnRow
    /\ Len(result.cells) = 8

(***************************************************************************)
(* Properties of the constructors (SpecBuild).  The lines of a text are     *)
(* stated here by the positions of its "\n" characters.                     *)
(***************************************************************************)
\* the positions of the line ends of the text
NewlineAt == {i \in 1..Len(text) : text[i] = "\n"}

\* the position of the k-th line end
KthNewline(k) ==
    CHOOSE i \in NewlineAt : Cardinality({j \in NewlineAt : j < i}) = k - 1

\* the number of lines: one per line end, and one more for an unended last line
LineCount ==
    Cardinality(NewlineAt)
    + (IF text # <<>> /\ text[Len(text)] # "\n" THEN 1 ELSE 0)

\* the characters of line k (k = 1 is the first), without its line end
\* ("\n", or "\r" followed by "\n")
LineOf(k) ==
    LET first == IF k = 1 THEN 1 ELSE KthNewline(k - 1) + 1
        ended == k <= Cardinality(NewlineAt)
        last  == IF ended THEN KthNewline(k) - 1 ELSE Len(text)
    IN  IF ended /\ last >= first /\ text[last] = "\r"
        THEN SubSeq(text, first, last - 1)
        ELSE SubSeq(text, first, last)

\* the integer a digit character stands for
DigitOf(c) ==
    CHOOSE d \in 0..9 :
        <<"0", "1", "2", "3", "4", "5", "6", "7", "8", "9">>[d + 1] = c

\* the characters of the lines that are no digit, as <<line, column>> positions
NonDigitAt ==
    {p \in (1..LineCount) \X (1..Len(text)) :
        p[2] <= Len(LineOf(p[1])) /\ ~is_digit(LineOf(p[1])[p[2]])}

\* the first of them in reading order
FirstNonDigit ==
    CHOOSE p \in NonDigitAt :
        \A q \in NonDigitAt : p[1] < q[1] \/ (p[1] = q[1] /\ p[2] <= q[2])

\* C4: the character grid has one row per line of the text, row y has as many
\* cells as line y has characters, and the cell in slot [y][x], which get(y, x)
\* returns, has row y, column x and the character at that place as value.
C4_CharGridFaithful ==
    call.op = "from_string_char" =>
        /\ pc = "ready"
        /\ Len(grid) = LineCount
        /\ \A r \in 1..LineCount :
              /\ Len(grid[r]) = Len(LineOf(r))
              /\ \A c \in 1..Len(LineOf(r)) :
                    /\ grid[r][c].y = r - 1
                    /\ grid[r][c].x = c - 1
                    /\ grid[r][c].value = LineOf(r)[c]
                    /\ Get(grid, r - 1, c - 1) = <<grid[r][c]>>
        /\ text = TextSample2 =>
              /\ Len(grid) = 2
              /\ grid[1][4].value = "." /\ grid[2][4].value = "*"

\* a grid of two rows of different lengths was built
C4_Witness ==
    /\ call.op = "from_string_char"
    /\ Len(grid) >= 2
    /\ Len(grid[2]) > 0
    /\ Len(grid[1]) # Len(grid[2])

\* C5: the digit constructor builds the whole grid, with the digits' values in
\* place, when every character of the lines is a digit; otherwise the call
\* fails with a message carrying the first character that is no digit and
\* builds no grid.
C5_DigitGridAllOrNothing ==
    call.op = "from_string_digit" =>
        /\ NonDigitAt = {} =>
              /\ pc = "ready"
              /\ panic_msg = <<>>
              /\ Len(grid) = LineCount
              /\ \A r \in 1..LineCount :
                    /\ Len(grid[r]) = Len(LineOf(r))
                    /\ \A c \in 1..Len(LineOf(r)) :
                          grid[r][c] = Cell(r - 1, c - 1, DigitOf(LineOf(r)[c]))
        /\ NonDigitAt # {} =>
              /\ pc = "panicked"
              /\ Len(panic_msg) = 2
              /\ panic_msg[2] = LineOf(FirstNonDigit[1])[FirstNonDigit[2]]
              /\ grid = <<>>
        /\ text = Text123 =>
              grid = << <<Cell(0, 0, 1), Cell(0, 1, 2), Cell(0, 2, 3)>>,
                        <<Cell(1, 0, 4), Cell(1, 1, 5), Cell(1, 2, 6)>> >>
        /\ text = Text12a => pc = "panicked" /\ panic_msg[2] = "a"

\* the digit constructor failed on "12a"
C5_Witness ==
    /\ call.op = "from_string_digit"
    /\ text = Text12a
    /\ pc = "panicked"
    /\ panic_msg = <<"Failed to cast to i32: ", "a">>

(***************************************************************************)
(* Properties of the example (SpecNumber, SpecAoc).                         *)
(***************************************************************************)
\* the positions of the cells of the Number
RunAt == {<<number[i].y, number[i].x>> : i \in 1..Len(number)}

\* the positions of the grid next to a cell of the Number, in any of the eight
\* directions, that are no position of the Number
AdjacentAt ==
    {p \in (0..(Len(grid) - 1)) \X (0..MaxCols) :
        /\ InGrid(p[1], p[2])
        /\ p \notin RunAt
        /\ \E q \in RunAt :
              /\ p[1] - q[1] \in {-1, 0, 1}
              /\ p[2] - q[2] \in {-1, 0, 1}}

\* C10: Number::peek_all returns every cell next to the run once, none of the
\* run, and nothing else.
C10_AdjacentOnce ==
    call.op = "number_peek_all" =>
        /\ ~result.panic
        /\ \A i, j \in 1..Len(result.cells) :
              result.cells[i] = result.cells[j] => i = j
        /\ {result.cells[i] : i \in 1..Len(result.cells)}
              = {grid[p[1] + 1][p[2] + 1] : p \in AdjacentAt}
        /\ \A i \in 1..Len(result.cells) : ~Contains(number, result.cells[i])

\* the run has two cells or more, whose neighbourhoods overlap, and cells of
\* two rows were returned
C10_Witness ==
    /\ call.op = "number_peek_all"
    /\ Len(number) >= 2
    /\ Len(result.cells) >= 4
    /\ \E i, j \in 1..Len(result.cells) : result.cells[i].y # result.cells[j].y

\* the values of the Numbers the gear map holds for a cell
ValuesAt(g) == [i \in 1..Len(gears[g]) |-> Value(gears[g][i])]

\* C9 as stated: the "*" at (4, 3) is in the gear map with exactly two Numbers
\* and adds a nonzero product, and a "*" with one or with three or more
\* Numbers adds zero.
C9_GearAt43 ==
    pc = "done" =>
        /\ Cell(4, 3, "*") \in DOMAIN gears
        /\ Len(gears[Cell(4, 3, "*")]) = 2
        /\ contrib[Cell(4, 3, "*")] # 0
        /\ \A g \in DOMAIN gears : Len(gears[g]) # 2 => contrib[g] = 0

\* C9 amended: the text starts with a line end, so row 0 of the grid is empty
\* and the "*" after 617 is at (5, 3); it touches the one Number 617 and adds
\* zero.  The "*" at (2, 3) touches 467 and 35 and the "*" at (9, 5) touches
\* 755 and 598; each adds its product.  A "*" with a number of Numbers other
\* than two adds zero, and the part 2 answer is the sum of the products.
C9_GearsOfSample ==
    /\ \A g \in DOMAIN contrib :
          /\ g \in DOMAIN gears
          /\ Len(gears[g]) # 2 => contrib[g] = 0
          /\ Len(gears[g]) = 2 =>
                contrib[g] = ValuesAt(g)[1] * ValuesAt(g)[2] /\ contrib[g] # 0
    /\ pc = "done" =>
          /\ Get(grid, 4, 3) = <<Cell(4, 3, ".")>>
          /\ DOMAIN gears = {Cell(2, 3, "*"), Cell(5, 3, "*"), Cell(9, 5, "*")}
          /\ ValuesAt(Cell(5, 3, "*")) = <<617>>
          /\ contrib[Cell(5, 3, "*")] = 0
          /\ ValuesAt(Cell(2, 3, "*")) = <<467, 35>>
          /\ contrib[Cell(2, 3, "*")] = 16345
          /\ ValuesAt(Cell(9, 5, "*")) = <<755, 598>>
          /\ contrib[Cell(9, 5, "*")] = 451490
          /\ p2_sum = 16345 + 451490

\* main ended, with the gear after 617 visited
C9_Witness ==
    /\ pc = "done"
    /\ Cell(5, 3, "*") \in DOMAIN contrib
    /\ p2_sum = 467835
    /\ p1_sum = 4361

====
